---------------------------- MODULE Spec2Model ----------------------------
(***************************************************************************)
(* A state-machine model of train.py: the character corpus and its codec,  *)
(* get_batch, estimate_loss, the attention Head, Block construction,       *)
(* GPTLanguageModel.forward / generate and the training loop.              *)
(*                                                                         *)
(* Tensors of floating-point numbers are represented by their shape (a     *)
(* sequence of dimensions); tensors of token ids by their content (a       *)
(* sequence of rows).  The attention head is computed exactly over small   *)
(* integers, with softmax weights kept as unnormalised numerators over a   *)
(* common denominator.                                                     *)
(***************************************************************************)
EXTENDS Integers, Sequences, FiniteSets, TLC

VARIABLES
    \* ---- training script state (train.py:190-209) ----
    iter,        \* loop variable of `for iter in range(max_iters)`
    tpc,         \* position of the training script
    training,    \* model.training, the nn.Module mode flag
    params,      \* version of the model parameters (number of updates applied)
    opt_steps,   \* number of optimizer.step() calls made
    est_split,   \* estimate_loss: index into ['train','val']
    est_k,       \* estimate_loss: loop variable k
    est_out,     \* estimate_loss: the splits already written to out
    batch,       \* the (ix, x, y) last returned by get_batch
    fwd_log,     \* the last forward pass of the script: caller, mode, outcome
    \* ---- direct calls of GPTLanguageModel.forward ----
    fwd,         \* arguments and result of the last direct call
    \* ---- GPTLanguageModel.generate ----
    gen_pc, gen_idx, gen_idx0, gen_max, gen_iter, idx_cond,
    \* ---- Head.forward run on two inputs ----
    head,
    \* ---- Block.__init__ ----
    blk

trainVars == <<iter, tpc, training, opt_steps, est_split, est_k, est_out, batch, fwd_log>>
genVars   == <<gen_pc, gen_idx, gen_idx0, gen_max, gen_iter, idx_cond>>
vars      == <<trainVars, params, fwd, genVars, head, blk>>

\* Python's None, and the shape () of a 0-dimensional tensor
None   == <<-1>>
Scalar == <<>>

----------------------------------------------------------------------------
(* Hyperparameters, train.py:5-15.  The program's values are 64, 256, 5000, *)
(* 500, 200, 384, 6 and 6; the model scales them down.                      *)
batch_size    == 2
block_size    == 2
max_iters     == 5
eval_interval == 2
eval_eters    == 2
n_embd        == 4
n_head        == 2
n_layer       == 2

(* Bounds on the inputs the model enumerates. *)
MaxT0    == 2      \* longest starting sequence handed to generate
MaxNew   == 3      \* largest max_new_tokens
MaxEmbd  == 12     \* largest n_embd handed to Block.__init__
MaxHead  == 8      \* largest n_head handed to Block.__init__
Batches    == {1, 2, 3} \* batch dimensions of direct forward calls
GenBatches == {1, 2}    \* batch dimensions of generate calls

----------------------------------------------------------------------------
(* Generic helpers *)
Min(a, b) == IF a < b THEN a ELSE b
Max(a, b) == IF a > b THEN a ELSE b

RECURSIVE Prod(_)
Prod(s) == IF s = <<>> THEN 1 ELSE Head(s) * Prod(Tail(s))

RECURSIVE Pow2(_)
Pow2(k) == IF k = 0 THEN 1 ELSE 2 * Pow2(k - 1)

RECURSIVE SumTo(_, _)
\* sum of f[1] .. f[n]
SumTo(f, n) == IF n = 0 THEN 0 ELSE f[n] + SumTo(f, n - 1)

(* Python slice s[lo:hi] on a sequence of length n: a negative bound counts *)
(* from the end, and every bound is clamped into [0, n].                    *)
PyBound(i, n) == IF i < 0 THEN Max(i + n, 0) ELSE Min(i, n)
PySlice(s, lo, hi) == SubSeq(s, PyBound(lo, Len(s)) + 1, PyBound(hi, Len(s)))
PySliceFrom(s, lo) == SubSeq(s, PyBound(lo, Len(s)) + 1, Len(s))
PySliceTo(s, hi)   == SubSeq(s, 1, PyBound(hi, Len(s)))

----------------------------------------------------------------------------
(* The corpus and the codec, train.py:19-35.  Characters are code points.  *)
text == << 97, 98, 98, 97, 97, 98, 97, 98, 98, 98,
           97, 97, 98, 97, 98, 98, 97, 97, 97, 98,
           98, 97, 98, 97, 97, 98, 98, 97, 98, 97, 98 >>

RECURSIVE SortedSeq(_)
\* sorted(list(S)) for a finite set of integers
SortedSeq(S) ==
    IF S = {} THEN <<>>
    ELSE LET m == CHOOSE x \in S : \A y \in S : x <= y
         IN  <<m>> \o SortedSeq(S \ {m})

chars      == SortedSeq({text[i] : i \in 1..Len(text)})
vocab_size == Len(chars)
stoi(ch)   == (CHOOSE i \in 1..Len(chars) : chars[i] = ch) - 1
encode(s)  == [i \in 1..Len(s) |-> stoi(s[i])]

data       == encode(text)
n          == (9 * Len(data)) \div 10
train_data == PySliceTo(data, n)
val_data   == PySliceFrom(data, n)

Tokens == 0..(vocab_size - 1)

----------------------------------------------------------------------------
(* get_batch, train.py:38-44 *)
SplitData(split) == IF split = "train" THEN train_data ELSE val_data

\* torch.randint(high, (size,)): every entry in [0, high); high <= 0 raises
RandInt(high, size) == [1..size -> 0..(high - 1)]

\* faulty variant: an upper bound one too large for the window starts
RandIntHighPlus(d) == Len(d) - block_size + 1

\* the upper bound handed to torch.randint, train.py:40
RandIntHigh(d) == Len(d) - block_size

\* the batch built from the window starts ix
BatchOf(d, ix) ==
    [ split |-> "", ix |-> ix,
      x  |-> [b \in 1..Len(ix) |-> PySlice(d, ix[b], ix[b] + block_size)],
      y  |-> [b \in 1..Len(ix) |-> PySlice(d, ix[b] + 1, ix[b] + 1 + block_size)] ]

\* torch.randint raises when its upper bound is not positive
GetBatchRaises(split) == RandIntHigh(SplitData(split)) <= 0

\* the batches get_batch(split) can return
get_batch(split) ==
    LET d == SplitData(split)
    IN  {BatchOf(d, ix) : ix \in RandInt(RandIntHigh(d), batch_size)}

\* shape of a 2-D tensor of token ids given as a sequence of rows
Shape(t) == <<Len(t), Len(t[1])>>


----------------------------------------------------------------------------
(* Shapes of the layers, train.py:59-129.  A shape is a sequence of        *)
(* dimensions; Err stands for the exception the layer raises.               *)
Err == <<-2>>

Last(s) == s[Len(s)]
WithLast(s, d) == [s EXCEPT ![Len(s)] = d]

\* nn.Linear(in_features, out_features) applied to a tensor of shape xs
Linear(in_features, out_features, xs) ==
    IF xs = Err \/ Last(xs) # in_features THEN Err ELSE WithLast(xs, out_features)

\* nn.LayerNorm(width) applied to a tensor of shape xs
LayerNorm(width, xs) == IF xs = Err \/ Last(xs) # width THEN Err ELSE xs

\* a + b for tensors whose shapes must agree (residual connections)
AddSame(a, b) == IF a = Err \/ b = Err \/ a # b THEN Err ELSE a

\* faulty variant: a mask that is not lower-triangular: torch.ones without torch.tril
TrilOnes == [i \in 1..block_size |-> [j \in 1..block_size |-> 1]]

\* the buffer registered at train.py:66, torch.tril(torch.ones(block_size, block_size))
tril == [i \in 1..block_size |-> [j \in 1..block_size |-> IF j <= i THEN 1 ELSE 0]]

\* self.tril[:T, :T]
TrilSlice(T) == [i \in 1..PyBound(T, block_size) |-> PySliceTo(tril[i], T)]

\* Head.forward on shapes, train.py:69-84
HeadShape(head_size, xs) ==
    LET k == Linear(n_embd, head_size, xs)
        T == xs[2]
        m == TrilSlice(T)
    IN  IF k = Err THEN Err
        \* masked_fill broadcasts the (t, t) mask against wei of shape (B, T, T)
        ELSE IF Len(m) # T /\ Len(m) # 1 THEN Err
        ELSE <<xs[1], T, head_size>>

\* MultiHeadAttention.forward on shapes, train.py:95-98
MultiHeadAttentionShape(num_heads, head_size, xs) ==
    LET h == HeadShape(head_size, xs)
    IN  IF num_heads < 1 \/ h = Err THEN Err
        ELSE Linear(head_size * num_heads, n_embd, WithLast(h, head_size * num_heads))

\* FeedForward.forward on shapes, train.py:105-112
FeedForwardShape(width, xs) == Linear(4 * width, width, Linear(width, 4 * width, xs))

\* Block.forward on shapes, train.py:126-129, for a block built from (n_embd, n_head)
BlockShape(xs) ==
    LET head_size == n_embd \div n_head
        x1 == AddSame(xs, MultiHeadAttentionShape(n_head, head_size, LayerNorm(n_embd, xs)))
    IN  IF x1 = Err THEN Err
        ELSE AddSame(x1, FeedForwardShape(n_embd, LayerNorm(n_embd, x1)))

RECURSIVE RunBlocks(_, _)
\* `for block in self.blocks: x = block(x)`: the shape after, and the blocks run
RunBlocks(xs, left) ==
    IF left = 0 \/ xs = Err THEN [x |-> xs, run |-> 0]
    ELSE LET r == RunBlocks(BlockShape(xs), left - 1)
         IN  [x |-> r.x, run |-> r.run + 1]

----------------------------------------------------------------------------
(* GPTLanguageModel.forward, train.py:152-171 *)

\* torch.arange(T)
Arange(T) == [i \in 1..T |-> i - 1]

\* faulty variant: a position table one row larger than the context window
PositionEmbeddingRowsPlus == block_size + 1

\* rows of self.position_embedding_table, train.py:137
PositionEmbeddingRows == block_size

\* nn.Embedding lookup: an index outside [0, num_embeddings) raises IndexError
EmbeddingOK(num_embeddings, indices) ==
    \A i \in 1..Len(indices) : 0 <= indices[i] /\ indices[i] < num_embeddings

\* self.lm_head(x), train.py:140 and 161
LmHead(xs) == Linear(n_embd, vocab_size, xs)

\* faulty variant: the logits returned without the flattening view
LogitsViewKept(B, T, C) == <<B, T, C>>

\* logits.view(B*T, C), train.py:167
LogitsView(B, T, C) == <<B * T, C>>

\* targets.view(B*T), train.py:168: raises unless the element counts agree
TargetsViewOK(tshape, B, T) == Prod(tshape) = B * T

Failure(stage, run, p) ==
    [outcome |-> "error", stage |-> stage, blocks_run |-> run,
     logits |-> None, loss |-> None, params |-> p]

\* forward(idx, targets) for idx of shape ishape and targets of shape tshape
\* (or None), with parameters p
Forward(ishape, tshape, p) ==
    LET B == ishape[1]
        T == ishape[2]
        tok_emb == ishape \o <<n_embd>>
    IN  IF ~EmbeddingOK(PositionEmbeddingRows, Arange(T))
        THEN Failure("position_embedding", 0, p)
        ELSE
        LET pos_emb == <<T, n_embd>>
            x0 == IF PySliceFrom(tok_emb, 1) = pos_emb THEN tok_emb ELSE Err
            r  == RunBlocks(x0, n_layer)
            logits == LmHead(LayerNorm(n_embd, r.x))
        IN  IF logits = Err THEN Failure("blocks", r.run, p)
            ELSE IF tshape = None
            THEN [outcome |-> "ok", stage |-> "return", blocks_run |-> r.run,
                  logits |-> logits, loss |-> None, params |-> p]
            ELSE IF ~TargetsViewOK(tshape, logits[1], logits[2])
            THEN Failure("targets_view", r.run, p)
            ELSE [outcome |-> "ok", stage |-> "return", blocks_run |-> r.run,
                  logits |-> LogitsView(logits[1], logits[2], logits[3]),
                  loss |-> Scalar, params |-> p]

\* the shapes direct callers hand to forward: T up to one past the context
\* window, targets absent or of any 1-D or 2-D shape
IdxShapes == {<<b, t>> : b \in Batches, t \in 1..(block_size + 1)}
TargetShapes ==
    {None} \cup {<<m>> : m \in 1..(2 * (block_size + 1))}
           \cup {<<b, t>> : b \in 1..(block_size + 1), t \in 1..(block_size + 1)}

ForwardCall ==
    /\ \E ishape \in IdxShapes, tshape \in TargetShapes :
         LET r == Forward(ishape, tshape, params)
         IN  /\ fwd' = [idx |-> ishape, targets |-> tshape, params0 |-> params, result |-> r]
             /\ params' = r.params
    /\ UNCHANGED <<trainVars, genVars, head, blk>>

----------------------------------------------------------------------------
(* GPTLanguageModel.generate, train.py:173-188 *)

\* faulty variant: the first block_size tokens instead of the last
CropFirst(idx) == [b \in 1..Len(idx) |-> PySliceTo(idx[b], block_size)]

\* idx[:, -block_size:]
Crop(idx) == [b \in 1..Len(idx) |-> PySliceFrom(idx[b], -block_size)]

\* faulty variant: the sampled token put in front of the sequence
CatNextFront(idx, idx_next) == [b \in 1..Len(idx) |-> <<idx_next[b]>> \o idx[b]]

\* torch.cat((idx, idx_next), dim=1), idx_next holding one token per row
CatNext(idx, idx_next) == [b \in 1..Len(idx) |-> Append(idx[b], idx_next[b])]

\* torch.multinomial over the last axis of logits[:, -1, :]: one id per row
Multinomial(logits) == [1..logits[1] -> 0..(logits[3] - 1)]

GenerateCall ==
    /\ gen_pc = "idle"
    /\ \E B \in GenBatches, T0 \in 1..MaxT0, m \in 0..MaxNew :
         \E idx \in [1..B -> [1..T0 -> Tokens]] :
            /\ gen_idx' = idx
            /\ gen_idx0' = idx
            /\ gen_max' = m
    /\ gen_iter' = 0
    /\ idx_cond' = <<>>
    /\ gen_pc' = "loop"
    /\ UNCHANGED <<trainVars, params, fwd, head, blk>>

\* one pass of the body of `for _ in range(max_new_tokens)`
GenerateIter ==
    /\ gen_pc = "loop"
    /\ gen_iter < gen_max
    /\ LET c == Crop(gen_idx)
           r == Forward(Shape(c), None, params)
       IN  /\ idx_cond' = c
           /\ params' = r.params
           /\ IF r.outcome = "error"
              THEN /\ gen_pc' = "error"
                   /\ UNCHANGED <<gen_idx, gen_iter>>
              ELSE /\ \E idx_next \in Multinomial(r.logits) :
                        gen_idx' = CatNext(gen_idx, idx_next)
                   /\ gen_iter' = gen_iter + 1
                   /\ gen_pc' = "loop"
    /\ UNCHANGED <<trainVars, fwd, gen_idx0, gen_max, head, blk>>

\* `return idx`
GenerateReturn ==
    /\ gen_pc = "loop"
    /\ gen_iter >= gen_max
    /\ gen_pc' = "done"
    /\ UNCHANGED <<trainVars, params, fwd, gen_idx, gen_idx0, gen_max, gen_iter,
                   idx_cond, head, blk>>

\* the caller takes the result and the call's locals are gone; generate can
\* be called again
GenerateNext ==
    /\ gen_pc = "done"
    /\ gen_pc' = "idle"
    /\ gen_idx' = <<>>
    /\ gen_idx0' = <<>>
    /\ gen_max' = 0
    /\ gen_iter' = 0
    /\ idx_cond' = <<>>
    /\ UNCHANGED <<trainVars, params, fwd, head, blk>>


----------------------------------------------------------------------------
(* estimate_loss, train.py:46-58 *)
Splits == <<"train", "val">>

\* model.eval() and model.train(): the value they give model.training
ModelEval(mode)  == FALSE
\* faulty variant: model.train() left out: the mode stays what it was
ModelTrainForgotten(mode) == mode
ModelTrain(mode) == TRUE

NoBatch == [split |-> "", ix |-> <<>>, x |-> <<>>, y |-> <<>>]
NoLog   == [caller |-> "", split |-> "", training |-> TRUE, grad |-> TRUE,
            outcome |-> "", params |-> 0]

\* the record of one forward pass model(X, Y) made by the script
LogOf(caller, split, grad, r) ==
    [caller |-> caller, split |-> split, training |-> training, grad |-> grad,
     outcome |-> r.outcome, params |-> r.params]

EstimateLossBegin ==
    /\ tpc = "estimate_loss"
    /\ training' = ModelEval(training)
    /\ est_split' = 1
    /\ est_k' = 0
    /\ est_out' = {}
    /\ tpc' = "est_loop"
    /\ UNCHANGED <<iter, opt_steps, batch, fwd_log, params, fwd, genVars, head, blk>>

\* `for k in range(eval_eters)`: X, Y = get_batch(split)
EstimateLossGetBatch ==
    /\ tpc = "est_loop"
    /\ est_split <= Len(Splits)
    /\ est_k < eval_eters
    /\ LET split == Splits[est_split]
       IN  IF GetBatchRaises(split)
           THEN tpc' = "error" /\ UNCHANGED batch
           ELSE /\ \E b \in get_batch(split) : batch' = [b EXCEPT !.split = split]
                /\ tpc' = "est_forward"
    /\ UNCHANGED <<iter, training, opt_steps, est_split, est_k, est_out, fwd_log,
                   params, fwd, genVars, head, blk>>

\* logits, loss = model(X, Y); losses[k] = loss.item().  X and Y are not read
\* again and are dropped.
EstimateLossForward ==
    /\ tpc = "est_forward"
    /\ LET r == Forward(Shape(batch.x), Shape(batch.y), params)
       IN  /\ fwd_log' = LogOf("estimate_loss", Splits[est_split], FALSE, r)
           /\ params' = r.params
           /\ IF r.outcome = "error"
              THEN tpc' = "error" /\ UNCHANGED est_k
              ELSE tpc' = "est_loop" /\ est_k' = est_k + 1
    /\ batch' = NoBatch
    /\ UNCHANGED <<iter, training, opt_steps, est_split, est_out, fwd, genVars, head, blk>>

\* out[split] = losses.mean(), and on to the next split
EstimateLossSplit ==
    /\ tpc = "est_loop"
    /\ est_split <= Len(Splits)
    /\ est_k >= eval_eters
    /\ est_out' = est_out \cup {Splits[est_split]}
    /\ est_split' = est_split + 1
    /\ est_k' = 0
    /\ UNCHANGED <<iter, tpc, training, opt_steps, batch, fwd_log, params, fwd,
                   genVars, head, blk>>

\* model.train(); return out
EstimateLossEnd ==
    /\ tpc = "est_loop"
    /\ est_split > Len(Splits)
    /\ training' = ModelTrain(training)
    /\ tpc' = "get_batch"
    /\ UNCHANGED <<iter, opt_steps, est_split, est_k, est_out, batch, fwd_log, params,
                   fwd, genVars, head, blk>>

----------------------------------------------------------------------------
(* The training loop, train.py:198-209 *)

\* the condition at train.py:200
EvalDue(i) == i % eval_interval = 0 \/ i = max_iters - 1

LoopEnter ==
    /\ tpc = "loop"
    /\ iter < max_iters
    /\ EvalDue(iter)
    /\ tpc' = "estimate_loss"
    /\ UNCHANGED <<iter, training, opt_steps, est_split, est_k, est_out, batch, fwd_log,
                   params, fwd, genVars, head, blk>>

\* the statements of train.py:201-209 all sit inside the `if`: an iteration
\* whose condition is false does nothing
LoopSkip ==
    /\ tpc = "loop"
    /\ iter < max_iters
    /\ ~EvalDue(iter)
    /\ iter' = iter + 1
    /\ UNCHANGED <<tpc, training, opt_steps, est_split, est_k, est_out, batch, fwd_log,
                   params, fwd, genVars, head, blk>>

LoopExit ==
    /\ tpc = "loop"
    /\ iter >= max_iters
    /\ tpc' = "done"
    /\ UNCHANGED <<iter, training, opt_steps, est_split, est_k, est_out, batch, fwd_log,
                   params, fwd, genVars, head, blk>>

\* xb, yb = get_batch('train')
TrainGetBatch ==
    /\ tpc = "get_batch"
    /\ IF GetBatchRaises("train")
       THEN tpc' = "error" /\ UNCHANGED batch
       ELSE /\ \E b \in get_batch("train") : batch' = [b EXCEPT !.split = "train"]
            /\ tpc' = "forward"
    /\ UNCHANGED <<iter, training, opt_steps, est_split, est_k, est_out, fwd_log,
                   params, fwd, genVars, head, blk>>

\* logits, loss = model(xb, yb).  xb and yb are not read again and are dropped.
TrainForward ==
    /\ tpc = "forward"
    /\ LET r == Forward(Shape(batch.x), Shape(batch.y), params)
       IN  /\ fwd_log' = LogOf("train", "train", TRUE, r)
           /\ params' = r.params
           /\ tpc' = IF r.outcome = "error" THEN "error" ELSE "update"
    /\ batch' = NoBatch
    /\ UNCHANGED <<iter, training, opt_steps, est_split, est_k, est_out,
                   fwd, genVars, head, blk>>

\* optimizer.zero_grad(); loss.backward(); optimizer.step()
TrainUpdate ==
    /\ tpc = "update"
    /\ params' = params + 1
    /\ opt_steps' = opt_steps + 1
    /\ iter' = iter + 1
    /\ tpc' = "loop"
    /\ UNCHANGED <<training, est_split, est_k, est_out, batch, fwd_log,
                   fwd, genVars, head, blk>>


----------------------------------------------------------------------------
(* Head.forward computed exactly, train.py:69-84, for one channel and      *)
(* head_size 1 (so the scale k.shape[-1]**-0.5 is 1).  Inputs and weights  *)
(* are small naturals; exp is modelled by 2^s; a softmax row is the        *)
(* sequence of its numerators over the row's sum.                          *)
Embeds == {0, 1}                       \* values of one input position
key_w   == 1 + 0                       \* self.key, self.query, self.value
query_w == 1 + 1
value_w == 1 + 0

NegInf == 0 - 1                        \* float('-inf'); scores are >= 0

\* q @ k.transpose(-2,-1) * k.shape[-1]**-0.5
Scores(x) ==
    [i \in 1..Len(x) |-> [j \in 1..Len(x) |-> (query_w * x[i]) * (key_w * x[j])]]

\* wei.masked_fill(mask == 0, float('-inf'))
MaskedFill(wei, mask) ==
    [i \in 1..Len(wei) |-> [j \in 1..Len(wei) |->
        IF mask[i][j] = 0 THEN NegInf ELSE wei[i][j]]]

\* numerators of F.softmax(wei, dim=-1): exp(-inf) = 0
SoftmaxNum(wei) ==
    [i \in 1..Len(wei) |-> [j \in 1..Len(wei) |->
        IF wei[i][j] = NegInf THEN 0 ELSE Pow2(wei[i][j])]]

\* nn.Dropout(0.2): in training an entry is zeroed or scaled by 1/(1-0.2) = 5/4,
\* in evaluation it is left alone.  Returns numerators and the common scale.
Dropout(num, train, keep) ==
    [ num |-> [i \in 1..Len(num) |-> [j \in 1..Len(num) |->
                 IF train /\ ~keep[i][j] THEN 0 ELSE num[i][j]]],
      up  |-> IF train THEN 5 ELSE 1,
      dn  |-> IF train THEN 4 ELSE 1 ]

\* Head.forward(x): the attention weights (numerators) and the output rows,
\* each output a fraction <<numerator, denominator>>
HeadForward(x, train, keep) ==
    LET T   == Len(x)
        wei == SoftmaxNum(MaskedFill(Scores(x), TrilSlice(T)))
        den == [i \in 1..T |-> SumTo(wei[i], T)]
        d   == Dropout(wei, train, keep)
        v   == [j \in 1..T |-> value_w * x[j]]
    IN  [ wei |-> d.num,
          out |-> [i \in 1..T |->
                     << d.up * SumTo([j \in 1..T |-> d.num[i][j] * v[j]], T),
                        d.dn * den[i] >>] ]

NoHead == [T |-> 0, x1 |-> <<>>, x2 |-> <<>>, training |-> TRUE, keep |-> <<>>,
           r1 |-> [wei |-> <<>>, out |-> <<>>], r2 |-> [wei |-> <<>>, out |-> <<>>]]

AllKept(T) == [i \in 1..T |-> [j \in 1..T |-> TRUE]]

\* the head run on two inputs of the same length, under the same mode and
\* the same dropout draws
HeadCall ==
    /\ head.T = 0
    /\ \E T \in 1..block_size, train \in BOOLEAN :
         \E x1 \in [1..T -> Embeds], x2 \in [1..T -> Embeds],
            keep \in (IF train THEN [1..T -> [1..T -> BOOLEAN]] ELSE {AllKept(T)}) :
            head' = [ T |-> T, x1 |-> x1, x2 |-> x2, training |-> train, keep |-> keep,
                      r1 |-> HeadForward(x1, train, keep),
                      r2 |-> HeadForward(x2, train, keep) ]
    /\ UNCHANGED <<trainVars, params, fwd, genVars, blk>>

\* the caller takes the two results; the head can be called again
HeadReturn ==
    /\ head.T # 0
    /\ head' = NoHead
    /\ UNCHANGED <<trainVars, params, fwd, genVars, blk>>

----------------------------------------------------------------------------
(* Block.__init__ and MultiHeadAttention.__init__, train.py:89-93, 117-124, *)
(* for a configuration (n_embd, n_head); the module-level n_embd read by    *)
(* Head and MultiHeadAttention is the value passed in, as at train.py:138.  *)

\* MultiHeadAttention.__init__(num_heads, head_size)
MultiHeadAttentionInit(embd, num_heads, head_size) ==
    [ num_heads |-> num_heads, head_size |-> head_size,
      concat    |-> num_heads * head_size,       \* width of torch.cat over the heads
      proj_in   |-> head_size * num_heads,
      proj_out  |-> embd ]

\* Block.__init__(n_embd, n_head); n_head = 0 raises ZeroDivisionError
BlockInit(embd, heads) ==
    IF heads = 0
    THEN [outcome |-> "error", n_embd |-> embd, n_head |-> heads,
          sa |-> MultiHeadAttentionInit(embd, 0, 0)]
    ELSE [outcome |-> "ok", n_embd |-> embd, n_head |-> heads,
          sa |-> MultiHeadAttentionInit(embd, heads, embd \div heads)]

BlockConstruct ==
    /\ \E embd \in 1..MaxEmbd, heads \in 0..MaxHead : blk' = BlockInit(embd, heads)
    /\ UNCHANGED <<trainVars, params, fwd, genVars, head>>

----------------------------------------------------------------------------
NoCall == [idx |-> <<>>, targets |-> None, params0 |-> 0,
           result |-> Failure("", 0, 0)]
NoBlock == [outcome |-> "", n_embd |-> 0, n_head |-> 0,
            sa |-> MultiHeadAttentionInit(0, 0, 0)]

Init ==
    /\ iter = 0
    /\ tpc = "loop"
    /\ training = TRUE          \* nn.Module starts in training mode
    /\ params = 0
    /\ opt_steps = 0
    /\ est_split = 1
    /\ est_k = 0
    /\ est_out = {}
    /\ batch = NoBatch
    /\ fwd_log = NoLog
    /\ fwd = NoCall
    /\ gen_pc = "idle"
    /\ gen_idx = <<>>
    /\ gen_idx0 = <<>>
    /\ gen_max = 0
    /\ gen_iter = 0
    /\ idx_cond = <<>>
    /\ head = NoHead
    /\ blk = NoBlock

\* the training script up to the end of its loop
NextTrain ==
    \/ LoopEnter \/ LoopSkip \/ LoopExit
    \/ EstimateLossBegin \/ EstimateLossGetBatch \/ EstimateLossForward
    \/ EstimateLossSplit \/ EstimateLossEnd
    \/ TrainGetBatch \/ TrainForward \/ TrainUpdate

\* direct calls of forward on a constructed model
NextForward == ForwardCall

\* calls of generate on a constructed model
NextGenerate == GenerateCall \/ GenerateIter \/ GenerateReturn \/ GenerateNext

NextHead == HeadCall \/ HeadReturn

NextBlock == BlockConstruct

Spec      == Init /\ [][NextTrain]_vars
SpecForward  == Init /\ [][NextForward]_vars
SpecGenerate == Init /\ [][NextGenerate]_vars
SpecHead  == Init /\ [][NextHead]_vars
SpecBlock == Init /\ [][NextBlock]_vars


----------------------------------------------------------------------------
(* Properties *)

\* equality of two fractions <<numerator, denominator>>
RatEq(a, b) == a[1] * b[2] = b[1] * a[2]

\* C1: generate runs exactly max_new_tokens sample-and-append iterations and
\* returns, per batch row, a sequence of length T0 + max_new_tokens whose first
\* T0 tokens are the original ones in order and whose appended tokens are ids
\* in [0, vocab_size); it never fails.
C1_GenerateExtends ==
    /\ gen_pc # "error"
    /\ gen_pc = "done" =>
         /\ gen_iter = gen_max
         /\ Len(gen_idx) = Len(gen_idx0)
         /\ \A b \in 1..Len(gen_idx) :
              LET T0 == Len(gen_idx0[b])
              IN  /\ Len(gen_idx[b]) = T0 + gen_max
                  /\ \A k \in 1..T0 : gen_idx[b][k] = gen_idx0[b][k]
                  /\ \A k \in (T0 + 1)..Len(gen_idx[b]) :
                       gen_idx[b][k] >= 0 /\ gen_idx[b][k] < vocab_size

\* a two-row call that returned after growing past the context window
C1_Witness ==
    /\ gen_pc = "done"
    /\ Len(gen_idx) = 2
    /\ gen_max >= 2
    /\ Len(gen_idx[1]) > block_size + 1
    /\ gen_idx[1] # gen_idx[2]

\* C2: in every iteration of generate the context handed to forward is exactly
\* the last min(L, block_size) tokens of the running sequence of length L, so
\* forward never gets a time dimension above block_size and generate never
\* fails with a context overflow.
C2_ContextIsLastBlock ==
    /\ gen_pc # "error"
    /\ gen_iter > 0 =>
         /\ Len(idx_cond) = Len(gen_idx)
         /\ \A b \in 1..Len(gen_idx) :
              \* the running sequence before this iteration's token was appended
              LET L == Len(gen_idx[b]) - 1
                  m == IF L < block_size THEN L ELSE block_size
              IN  /\ Len(idx_cond[b]) = m
                  /\ Len(idx_cond[b]) <= block_size
                  /\ \A k \in 1..m : idx_cond[b][k] = gen_idx[b][L - m + k]

\* an iteration whose running sequence was longer than the context window
C2_Witness ==
    /\ gen_iter > 0
    /\ gen_pc = "loop"
    /\ Len(gen_idx[1]) - 1 > block_size
    /\ Len(idx_cond[1]) = block_size
    /\ gen_idx[1][1] # gen_idx[1][Len(gen_idx[1]) - block_size]

SameShapeCall ==
    /\ fwd.idx # <<>>
    /\ fwd.targets = fwd.idx
    /\ fwd.idx[2] <= block_size

\* C3 as stated: forward(tokens, targets) on a (B, T) batch with T <= block_size
\* and targets of the same shape returns logits of shape (B, T, vocab_size)
\* together with a scalar loss.
C3_Original ==
    SameShapeCall =>
        /\ fwd.result.outcome = "ok"
        /\ fwd.result.logits = <<fwd.idx[1], fwd.idx[2], vocab_size>>
        /\ fwd.result.loss = Scalar

\* C3 as amended: with targets of the same shape, forward returns the logits
\* flattened to shape (B*T, vocab_size) together with a scalar loss; the shape
\* (B, T, vocab_size) is returned only when no targets are given, and the loss
\* is then None.
C3_LogitsFlattened ==
    /\ SameShapeCall =>
         /\ fwd.result.outcome = "ok"
         /\ fwd.result.logits = <<fwd.idx[1] * fwd.idx[2], vocab_size>>
         /\ fwd.result.loss = Scalar
    /\ (fwd.idx # <<>> /\ fwd.targets = None /\ fwd.idx[2] <= block_size) =>
         /\ fwd.result.outcome = "ok"
         /\ fwd.result.logits = <<fwd.idx[1], fwd.idx[2], vocab_size>>
         /\ fwd.result.loss = None

\* a call on a (2, block_size) batch with targets of the same shape
C3_Witness ==
    /\ SameShapeCall
    /\ fwd.idx = <<2, block_size>>
    /\ fwd.result.loss = Scalar

\* C4: forward with T = block_size succeeds; with T > block_size it ends in an
\* error raised at the position-embedding step, before any Transformer Block
\* runs, with the parameters unchanged, and it returns no logits.
C4_ContextOverflow ==
    fwd.idx # <<>> =>
        /\ (fwd.idx[2] = block_size /\ fwd.targets \in {None, fwd.idx}) =>
             /\ fwd.result.outcome = "ok"
             /\ fwd.result.blocks_run = n_layer
        /\ fwd.idx[2] > block_size =>
             /\ fwd.result.outcome = "error"
             /\ fwd.result.stage = "position_embedding"
             /\ fwd.result.blocks_run = 0
             /\ fwd.result.logits = None
             /\ fwd.result.loss = None
             /\ params = fwd.params0

\* a call with T = block_size + 1 that ended in the error
C4_Witness ==
    /\ fwd.idx # <<>>
    /\ fwd.idx[2] = block_size + 1
    /\ fwd.targets = fwd.idx
    /\ fwd.result.outcome = "error"

\* C5: constructing a Block yields heads with num_heads * head_size = n_embd,
\* or fails with an error when n_embd is not divisible by n_head; no block is
\* constructed whose concatenated head width differs from n_embd.
C5_HeadsFillEmbedding ==
    blk.outcome # "" =>
        \/ /\ blk.outcome = "ok"
           /\ blk.sa.num_heads * blk.sa.head_size = blk.n_embd
           /\ blk.sa.concat = blk.n_embd
        \/ /\ blk.outcome = "error"
           /\ (blk.n_head = 0 \/ blk.n_embd % blk.n_head # 0)

\* C6: forward(tokens, targets) fails, and returns no loss, whenever the batch
\* or time dimension of targets differs from that of tokens, also when the
\* element counts agree.
C6_ShapeMismatchRejected ==
    (fwd.idx # <<>> /\ Len(fwd.targets) = 2 /\ fwd.targets # fwd.idx) =>
        /\ fwd.result.outcome = "error"
        /\ fwd.result.loss = None

\* C7: for every T <= block_size the head masks with the top-left T x T slice
\* of the stored lower-triangular mask: the weight from query position i to
\* key position j is zero for every j > i, and two runs whose inputs agree on
\* positions 1..i (same mode, same dropout draws) agree on output position i.
C7_Causal ==
    head.T # 0 =>
        /\ Len(TrilSlice(head.T)) = head.T
        /\ \A i \in 1..head.T :
             /\ Len(TrilSlice(head.T)[i]) = head.T
             /\ \A j \in 1..head.T : TrilSlice(head.T)[i][j] = tril[i][j]
             /\ \A j \in (i + 1)..head.T :
                  head.r1.wei[i][j] = 0 /\ head.r2.wei[i][j] = 0
             /\ (\A j \in 1..i : head.x1[j] = head.x2[j]) =>
                  RatEq(head.r1.out[i], head.r2.out[i])

\* two runs at full context whose inputs differ only at the last position:
\* the last outputs differ, the earlier ones are checked equal
C7_Witness ==
    /\ head.T = block_size
    /\ head.T > 1
    /\ \A j \in 1..(head.T - 1) : head.x1[j] = head.x2[j]
    /\ head.x1[head.T] # head.x2[head.T]
    /\ head.x1[1] # 0
    /\ ~RatEq(head.r1.out[head.T], head.r2.out[head.T])

\* C8: the training loop performs a parameter update in every one of its
\* max_iters iterations, so after the loop exactly max_iters optimizer steps
\* have been taken.
C8_UpdateEveryIteration ==
    tpc = "done" => opt_steps = max_iters

InEstimateLoss == tpc \in {"estimate_loss", "est_loop", "est_forward"}

\* C9: every forward pass inside estimate_loss runs in evaluation mode, for
\* both splits; estimate_loss updates no parameter; when it returns the model
\* is back in training mode, so every training-step forward pass runs with
\* dropout active.
C9_EvalModeRestored ==
    /\ [](/\ fwd_log.caller = "estimate_loss" => ~fwd_log.training
          /\ fwd_log.caller = "train" => fwd_log.training
          /\ tpc \in {"est_loop", "est_forward"} => ~training
          /\ tpc \in {"get_batch", "forward", "update"} => training)
    /\ [][InEstimateLoss => (params' = params /\ opt_steps' = opt_steps)]_vars

\* a training-step forward pass made after an evaluation of both splits
C9_Witness ==
    /\ fwd_log.caller = "train"
    /\ fwd_log.training
    /\ est_out = {"train", "val"}
    /\ tpc = "update"
    /\ iter > 0

\* C10: every batch get_batch returns holds batch_size (input, target) pairs,
\* each of length block_size; the input is the window data[s .. s+block_size-1]
\* with s in [0, N - block_size), target[i] = data[s+i+1], so target[i] =
\* input[i+1], and no index read lies outside [0, N).
C10_BatchWindows ==
    batch # NoBatch =>
        LET d == SplitData(batch.split)
            N == Len(d)
        IN  /\ N > block_size
            /\ Len(batch.ix) = batch_size
            /\ Len(batch.x) = batch_size
            /\ Len(batch.y) = batch_size
            /\ \A b \in 1..batch_size :
                 LET s == batch.ix[b]
                 IN  /\ s >= 0 /\ s < N - block_size
                     /\ Len(batch.x[b]) = block_size
                     /\ Len(batch.y[b]) = block_size
                     /\ \A i \in 0..(block_size - 1) :
                          /\ s + i + 1 < N
                          /\ batch.x[b][i + 1] = d[s + i + 1]
                          /\ batch.y[b][i + 1] = d[s + i + 2]
                          /\ i < block_size - 1 => batch.y[b][i + 1] = batch.x[b][i + 2]

\* a training batch holding the first and the last window of the data
C10_Witness ==
    /\ batch # NoBatch
    /\ batch.split = "train"
    /\ batch.ix[1] = 0
    /\ batch.ix[2] = Len(train_data) - block_size - 1
    /\ batch.y[2][block_size] = train_data[Len(train_data)]

============================================================================
